---- MODULE Spec2Model ----
(***************************************************************************)
(* One run of executeWithExecutionPrompt (deploy/route.ts) driving the     *)
(* CUA Agent (agent.ts), together with the external writers of the state   *)
(* it shares: the agent's isDeployed flag and the persisted session        *)
(* record.  Every await of the run is a step; the external writers may     *)
(* act between any two steps.                                              *)
(***************************************************************************)
EXTENDS Naturals, Sequences, FiniteSets

VARIABLES
    pc,                 \* position of the run in executeWithExecutionPrompt
    browser,            \* the local `browser`: "null" or "open"
    everConstructed,    \* a BrowserbaseBrowser was constructed by this run
    disconnectCalls,    \* number of browser.disconnect() calls of the run
    browserReady,       \* the local browserReady of the readiness loop
    isDeployed,         \* what `currentAgent && currentAgent.isDeployed` reads
    cancel,             \* age of the oldest clearing of the flag the loop has
                        \* not answered: "none", "between" (iterations),
                        \* "now" (this iteration), "earlier" (an ended one)
    sessionDoc,         \* the AgentSession document of this run
    session,            \* the local `session`: "unset", "null" or "doc"
    failedSession,      \* the local `failedSession`, likewise
    dailyTaskId,        \* TRUE when the run was given a dailyTaskId
    dailyTask,          \* the DailyTask document (status, error)
    stepCount,          \* the local stepCount
    previousResponseId, \* the local previousResponseId (0 = undefined)
    llmRequests,        \* number of getAction calls issued by the run
    request,            \* the options of the latest createResponse call
    output,             \* response.output of the current turn
    idx,                \* takeAction: index of the item being dispatched
    sub,                \* takeComputerAction: "start" or "checks"
    results,            \* takeAction: the local `results`
    actionOutputs,      \* the local actionOutputs once pushed onto `messages`
    executed,           \* call ids whose browser primitive ran this turn
    acked,              \* call ids whose safety checks were all accepted
    rejected,           \* the callback rejected a check this turn
    threw,              \* takeAction threw this turn
    logged,             \* the SessionLog entries written this turn
    stopReason,         \* why the loop ended: none/paused/empty/maxSteps
    error,              \* the error caught by the top-level catch
    deductCalls,        \* number of deductCredits calls of the run
    completedByRun,     \* the run's update moved the record to completed
    runWrites,          \* number of status changes the run made
    skipped,            \* a terminal write found the record stopped
    sessionAtSkip,      \* the record as that terminal write found it
    result,             \* what the function returned
    \* substituteCredentials, called on its own
    prompt,             \* the argument prompt, a sequence of tokens
    credentials,        \* the argument credentials: key -> value tokens
    substitutedPrompt,  \* what the call returned or threw
    \* one createResponse call under the axios-retry configuration
    httpAttempts,       \* HTTP requests sent for the call
    retryCount,         \* axios-retry's count of retries made
    delays,             \* the retryDelay results, in order
    lastError,          \* the error of the latest attempt
    reqState,           \* "idle", "sending", "failed", "ok" or "error"
    \* Agent.takeFunctionAction, called on its own
    functionItem,       \* the argument: name, arguments, call_id
    fnReturn,           \* what the call did and returned
    \* the POST handler of the deploy route
    postReq,            \* what the checks of one request will find
    postPc,             \* position of the handler
    postResponse,       \* the response: status (0 = none yet) and reason
    postEffects,        \* what the handler has written or started
    \* the readiness loop of executeWithExecutionPrompt, with its clock
    readiness,          \* position, browserReady, retryDelay, elapsed time
    \* concurrent accepted deployments of one agent
    db,                 \* the agent's DailyTasks, AgentSessions, isDeployed
    deploys,            \* per request: position and locals of POST
    \* the POST handler of the Stagehand example route
    shReq,              \* the request body: action and what will throw
    shPc,               \* position of the handler
    stagehand,          \* the local `stagehand`: null or the wrapper with
                        \* its private field stagehand
    closeCalls,         \* calls of the wrapper's and of Stagehand's close()
    shResponse          \* status of the response (0 = none yet)

runVars == <<pc, browser, everConstructed, disconnectCalls, browserReady,
          isDeployed, cancel,
          sessionDoc,
          session, failedSession,
          dailyTaskId, dailyTask, stepCount, previousResponseId, llmRequests,
          request,
          output, idx, sub, results, actionOutputs, executed, acked, rejected,
          threw, logged, stopReason, error, deductCalls, completedByRun, runWrites,
          skipped, sessionAtSkip, result>>

substVars == <<prompt, credentials, substitutedPrompt>>
retryVars == <<httpAttempts, retryCount, delays, lastError, reqState>>
fnVars == <<functionItem, fnReturn>>
postVars == <<postReq, postPc, postResponse, postEffects>>
readyVars == <<readiness>>
deployVars == <<db, deploys>>
shVars == <<shReq, shPc, stagehand, closeCalls, shResponse>>
restVars == <<readyVars, deployVars, shVars>>
auxVars == <<substVars, retryVars, fnVars, postVars, restVars>>

vars == <<runVars, auxVars>>

\* `const maxSteps = 100`
maxSteps == 100

\* Largest number of items in one LLM response of the model.
MaxItems == 2

----------------------------------------------------------------------------
(* Items of an LLM response and of the conversation. *)

\* The item shapes the Responses API returns; a computer_call may carry
\* pending_safety_checks.
Kinds == {"message", "computer_call", "computer_call_checked", "function_call"}

Item(kind, i) ==
    [type    |-> IF kind = "computer_call_checked" THEN "computer_call" ELSE kind,
     call_id |-> IF kind = "message" THEN 0 ELSE i,
     checks  |-> kind = "computer_call_checked"]

\* The output lists an LLM response may carry: call ids are unique.
OutputLists ==
    UNION {{[i \in 1..n |-> Item(k[i], i)] : k \in [1..n -> Kinds]} : n \in 0..MaxItems}

IsCall(item) == item.type \in {"computer_call", "function_call"}

\* takeComputerAction's return value.
ComputerCallOutputNoId(item) ==
    [type |-> "computer_call_output", call_id |-> 0]

ComputerCallOutput(item) ==
    [type |-> "computer_call_output", call_id |-> item.call_id]

\* takeFunctionAction's return value.
FunctionOutput(item) ==
    [type |-> "function_call_output", call_id |-> item.call_id]

\* The message the loop's error boundary synthesizes.
ErrorMessageItem == [type |-> "assistant", call_id |-> 0]

\* this.tools of the Agent: the computer tool and the functions back, goto.
ToolCatalog == <<"computer_use_preview", "back", "goto">>

\* The options getAction hands to createResponse; previous_response_id is
\* spread in only when previousResponseId is set (0 = left out).
RequestOptions(prev) ==
    [model |-> "computer-use-preview", tools |-> ToolCatalog,
     truncation |-> "auto", previous_response_id |-> prev]

\* No request made yet.
NoRequest ==
    [model |-> "none", tools |-> <<>>, truncation |-> "none",
     previous_response_id |-> 0]

----------------------------------------------------------------------------
(* The persisted session record. *)

\* AgentSession.create({status: "running", startedAt: new Date()})
NewSession ==
    [status |-> "running", startedAt |-> TRUE, browserSessionId |-> FALSE,
     completedAt |-> "none", totalSteps |-> 0, summary |-> FALSE,
     errorMessage |-> "none"]

\* The filter {_id: sessionId, status: "running"} of findOneAndUpdate.
SessionMatchesAny(rec) == TRUE

SessionMatches(rec) == rec.status = "running"

\* The completion update document.
CompletedUpdate(rec, steps) ==
    [rec EXCEPT !.status = "completed", !.completedAt = "run",
                !.totalSteps = steps, !.summary = TRUE]

\* The failure update document.
FailedUpdate(rec, msg) ==
    [rec EXCEPT !.status = "failed", !.errorMessage = msg, !.completedAt = "run"]

\* `if (session && session.startedAt)` on the result of the completion write.
DeductGuardAlways(local, rec) == TRUE

DeductGuard(local, rec) == local = "doc" /\ rec.startedAt

\* `if (dailyTaskId && session)` on the result of the completion write.
DailyTaskGuardAnySession(hasTask, local) == hasTask

DailyTaskGuard(hasTask, local) == hasTask /\ local = "doc"

\* The loop condition `stepCount < maxSteps`.
LoopContinuesInclusive(n) == n <= maxSteps

LoopContinues(n) == n < maxSteps

\* `if (browser)` of the finally block.
FinallyDisconnectsNever(b) == FALSE

FinallyDisconnects(b) == b # "null"

\* The positions of the run inside the step loop.
LoopPcs == {"loop", "check", "get", "log", "take"}

----------------------------------------------------------------------------
\* The state of a run when executeWithExecutionPrompt is entered.
RunInit ==
    /\ pc = "new"
    /\ browser = "null"
    /\ everConstructed = FALSE
    /\ disconnectCalls = 0
    /\ browserReady = FALSE
    /\ isDeployed = TRUE
    /\ sessionDoc = NewSession
    /\ session = "unset"
    /\ failedSession = "unset"
    /\ dailyTaskId \in BOOLEAN
    /\ dailyTask = [status |-> IF dailyTaskId THEN "running" ELSE "none",
                    error |-> "none"]
    /\ stepCount = 0
    /\ previousResponseId = 0
    /\ request = NoRequest
    /\ llmRequests = 0
    /\ output = <<>>
    /\ idx = 1
    /\ sub = "start"
    /\ results = <<>>
    /\ actionOutputs = <<>>
    /\ executed = {}
    /\ acked = {}
    /\ rejected = FALSE
    /\ logged = <<>>
    /\ threw = FALSE
    /\ cancel = "none"
    /\ stopReason = "none"
    /\ error = "none"
    /\ deductCalls = 0
    /\ completedByRun = FALSE
    /\ runWrites = 0
    /\ skipped = FALSE
    /\ sessionAtSkip = NewSession
    /\ result = "none"

\* No failed attempt yet.
NoError == [kind |-> "none", status |-> 0]

\* No response sent yet.
NoResponse == [status |-> 0, reason |-> "none"]

\* substituteCredentials not called.
SubstIdle ==
    /\ prompt = <<>>
    /\ credentials = <<>>
    /\ substitutedPrompt = [state |-> "idle"]

\* No createResponse call under way.
RetryIdle ==
    /\ httpAttempts = 0
    /\ retryCount = 0
    /\ delays = <<>>
    /\ lastError = NoError
    /\ reqState = "idle"

\* takeFunctionAction not called.
FnIdle ==
    /\ functionItem = [state |-> "idle"]
    /\ fnReturn = [state |-> "idle"]

\* No POST being handled.
PostIdle ==
    /\ postReq = [state |-> "idle"]
    /\ postPc = "idle"
    /\ postResponse = NoResponse
    /\ postEffects = {}

\* The readiness loop not entered.
ReadyIdle == readiness = [pc |-> "idle"]

\* No deployment request under way.
DeployIdle ==
    /\ db = [state |-> "idle"]
    /\ deploys = <<>>

\* `let stagehand: StagehandBrowser | null = null`
NoWrapper == [constructed |-> FALSE, stagehand |-> "null"]

\* No close() called: by the handler, after it, on the Stagehand instance;
\* whether the latest close() threw.
NoCloseCalls == [handler |-> 0, again |-> 0, inner |-> 0, threw |-> FALSE]

\* No request to the Stagehand example route.
ShIdle ==
    /\ shReq = [state |-> "idle"]
    /\ shPc = "idle"
    /\ stagehand = NoWrapper
    /\ closeCalls = NoCloseCalls
    /\ shResponse = 0

Init ==
    /\ RunInit
    /\ SubstIdle
    /\ RetryIdle
    /\ FnIdle
    /\ PostIdle
    /\ ReadyIdle
    /\ DeployIdle
    /\ ShIdle

envVars == <<isDeployed, cancel>>
turnVars == <<output, idx, sub, results, actionOutputs, executed, acked, rejected,
              threw, logged>>
loopVars == <<stepCount, previousResponseId, llmRequests, request, stopReason>>
billVars == <<deductCalls, completedByRun, runWrites, skipped, sessionAtSkip>>
recVars == <<sessionDoc, session, failedSession>>
browserVars == <<browser, everConstructed, disconnectCalls, browserReady>>
taskVars == <<dailyTaskId, dailyTask>>

\* A throw inside the try block: control moves to the catch handler.
Throw(e) ==
    /\ pc' = "catch"
    /\ error' = e

\* The locals of a loop iteration (response, actionOutputs, and what
\* takeAction did with them) go out of scope when the iteration ends.
ClearTurn ==
    /\ output' = <<>>
    /\ idx' = 1
    /\ sub' = "start"
    /\ results' = <<>>
    /\ actionOutputs' = <<>>
    /\ executed' = {}
    /\ acked' = {}
    /\ rejected' = FALSE
    /\ threw' = FALSE
    /\ logged' = <<>>

----------------------------------------------------------------------------
(* Before the loop: browser construction, connection, readiness,          *)
(* credentials.                                                            *)

\* new BrowserbaseBrowser(...) inside the try block.
NewBrowser ==
    /\ pc = "new"
    /\ \/ /\ browser' = "open"
          /\ everConstructed' = TRUE
          /\ pc' = "connect"
          /\ UNCHANGED error
       \/ /\ Throw("construct")
          /\ UNCHANGED <<browser, everConstructed>>
    /\ UNCHANGED <<disconnectCalls, browserReady, envVars, recVars, taskVars,
                   loopVars, turnVars, billVars, result>>
    /\ UNCHANGED auxVars

\* await browser.connect(), then the session-id test.
Connect ==
    /\ pc = "connect"
    /\ \/ /\ pc' = "store"
          /\ UNCHANGED error
       \/ Throw("connect")
       \/ Throw("nosession")
    /\ UNCHANGED <<browserVars, envVars, recVars, taskVars, loopVars,
                   turnVars, billVars, result>>
    /\ UNCHANGED auxVars

\* AgentSession.findByIdAndUpdate(sessionId, {browserSessionId}): not
\* conditional on the status.
StoreSessionId ==
    /\ pc = "store"
    /\ \/ /\ sessionDoc' = [sessionDoc EXCEPT !.browserSessionId = TRUE]
          /\ pc' = "ready"
          /\ UNCHANGED error
       \/ /\ Throw("db")
          /\ UNCHANGED sessionDoc
    /\ UNCHANGED <<browserVars, envVars, session, failedSession, taskVars,
                   loopVars, turnVars, billVars, result>>
    /\ UNCHANGED auxVars

\* `if (!browserReady) throw` after the readiness loop, negated.
ReadyGateOpen(ready) == TRUE

ReadyGate(ready) == ready

\* The readiness loop: a probe (browser.screenshot) succeeds and sets
\* browserReady, or the wait runs out with browserReady still false; then
\* the test of browserReady.
Readiness ==
    /\ pc = "ready"
    /\ \E ready \in BOOLEAN :
          /\ browserReady' = ready
          /\ IF ReadyGate(ready)
               THEN /\ pc' = "creds"
                    /\ UNCHANGED error
               ELSE Throw("notready")
    /\ UNCHANGED <<browser, everConstructed, disconnectCalls, envVars, recVars, taskVars, loopVars,
                   turnVars, billVars, result>>
    /\ UNCHANGED auxVars

\* Previous days' context, decryption and substituteCredentials.
Credentials ==
    /\ pc = "creds"
    /\ \/ /\ pc' = "loop"
          /\ UNCHANGED error
       \/ Throw("decrypt")
       \/ Throw("missingcreds")
       \/ /\ dailyTaskId
          /\ Throw("db")
    /\ UNCHANGED <<browserVars, envVars, recVars, taskVars, loopVars,
                   turnVars, billVars, result>>
    /\ UNCHANGED auxVars

----------------------------------------------------------------------------
(* The step loop. *)

\* while (stepCount < maxSteps) { stepCount++; ... : the previous iteration's
\* locals are gone, the next one starts or the loop is left.
LoopHead ==
    /\ pc = "loop"
    /\ IF LoopContinues(stepCount)
         THEN /\ stepCount' = stepCount + 1
              /\ pc' = "check"
              /\ UNCHANGED stopReason
         ELSE /\ stopReason' = "maxSteps"
              /\ pc' = "terminal"
              /\ UNCHANGED stepCount
    /\ ClearTurn
    /\ cancel' = CASE cancel = "between" -> "now"
                   [] cancel = "now" -> "earlier"
                   [] OTHER -> cancel
    /\ UNCHANGED <<browserVars, isDeployed, recVars, taskVars,
                   previousResponseId, llmRequests, request, billVars, error,
                   result>>
    /\ UNCHANGED auxVars

\* The negation of `!currentAgent || !currentAgent.isDeployed`, on the value
\* just read.
StillDeployedAlways(flag) == TRUE

StillDeployed(flag) == flag

\* Where the `break` of a cleared flag goes: past the loop, to the terminal
\* write of the try block.
PausedExitThrows == "catch"

PausedExit == "terminal"

\* AgentModel.findById(agentId) and the isDeployed test.
CheckDeployed ==
    /\ pc = "check"
    /\ \/ IF StillDeployed(isDeployed)
            THEN /\ pc' = "get"
                 /\ UNCHANGED <<stopReason, error>>
            ELSE /\ stopReason' = "paused"
                 /\ pc' = PausedExit
                 /\ UNCHANGED error
       \/ /\ Throw("db")
          /\ UNCHANGED stopReason
    /\ UNCHANGED <<browserVars, envVars, recVars, taskVars, stepCount,
                   previousResponseId, llmRequests, request, turnVars, billVars,
                   result>>
    /\ UNCHANGED auxVars

\* `previousResponseId = response.responseId`; the id of the n-th response
\* of the run is n.
NextCursorStale(prev, responseId) == prev

NextCursor(prev, responseId) == responseId

\* `!response || !response.output || response.output.length === 0`
IsEmptyOutputNever(out) == FALSE

IsEmptyOutput(out) == Len(out) = 0

\* Where an error thrown by getAction goes: nothing inside the loop catches
\* it, so it reaches the catch handler of the function.
LlmFailureResumes == "loop"

LlmFailureExit == "catch"

\* cuaAgent.getAction(messages, previousResponseId) and the empty-output test.
\* A request made although the flag was cleared in an earlier iteration
\* answers that clearing; a flag cleared at this moment counts from here.
GetAction ==
    /\ pc = "get"
    /\ llmRequests' = llmRequests + 1
    /\ request' = RequestOptions(previousResponseId)
    /\ cancel' = IF cancel = "earlier"
                   THEN (IF isDeployed THEN "none" ELSE "now")
                   ELSE cancel
    /\ \/ /\ pc' = LlmFailureExit
          /\ error' = "llm"
          /\ UNCHANGED <<previousResponseId, stopReason, turnVars>>
       \/ \E out \in OutputLists :
            IF IsEmptyOutput(out)
              THEN /\ stopReason' = "empty"
                   /\ pc' = "terminal"
                   /\ UNCHANGED <<previousResponseId, error, turnVars>>
              ELSE /\ output' = out
                   /\ previousResponseId' =
                        NextCursor(previousResponseId, llmRequests')
                   /\ pc' = "log"
                   /\ UNCHANGED <<idx, sub, results, actionOutputs, executed,
                                  acked, rejected, threw, logged>>
                   /\ UNCHANGED <<stopReason, error>>
    /\ UNCHANGED <<browserVars, isDeployed, recVars, taskVars, stepCount,
                   billVars, result>>
    /\ UNCHANGED auxVars

\* Number of SessionLog.create calls of a turn: one per call item.
LogEntries(out) == Cardinality({i \in 1..Len(out) : IsCall(out[i])})

\* The item types the logging pass writes an entry for.
LoggedTypesComputerOnly == {"computer_call"}

LoggedTypesWithMessage == {"computer_call", "function_call", "message"}

LoggedTypes == {"computer_call", "function_call"}

\* The SessionLog.create calls of the logging pass, in the order of the
\* items: {stepNumber: stepCount, ...} for each computer_call and
\* function_call.
RECURSIVE LogRecords(_, _)
LogRecords(out, step) ==
    IF out = <<>> THEN <<>>
    ELSE (IF Head(out).type \in LoggedTypes
            THEN <<[stepNumber |-> step, call_id |-> Head(out).call_id]>>
            ELSE <<>>) \o LogRecords(Tail(out), step)

\* The logging pass over response.output.
LogActions ==
    /\ pc = "log"
    /\ \/ /\ logged' = LogRecords(output, stepCount)
          /\ pc' = "take"
          /\ UNCHANGED <<error, output, idx, sub, results, actionOutputs, executed,
                         acked, rejected, threw>>
       \/ /\ LogEntries(output) > 0
          /\ Throw("log")
          /\ ClearTurn
    /\ UNCHANGED <<browserVars, envVars, recVars, taskVars, loopVars,
                   billVars, result>>
    /\ UNCHANGED auxVars

----------------------------------------------------------------------------
(* Agent.takeAction, item by item, inside the loop's error boundary. *)

\* Where the catch of the boundary leaves control: after the try/catch
\* inside the loop body, so the iteration ends normally.
BoundaryRethrows == "catch"

BoundaryResumes == "loop"

\* The catch of the boundary: actionOutputs becomes one assistant message,
\* which is pushed onto messages; the loop goes on.
BoundaryCatch ==
    /\ actionOutputs' = <<ErrorMessageItem>>
    /\ threw' = TRUE
    /\ pc' = BoundaryResumes

\* A message item: `continue`.
SkipMessage ==
    /\ pc = "take"
    /\ idx <= Len(output)
    /\ output[idx].type = "message"
    /\ idx' = idx + 1
    /\ UNCHANGED <<pc, browserVars, envVars, recVars, taskVars, loopVars,
                   output, sub, results, actionOutputs, executed, acked, rejected,
                   threw, logged, billVars, error, result>>
    /\ UNCHANGED auxVars

\* takeComputerAction up to the screenshot: method.apply(this.computer, ...)
\* then this.computer.screenshot(); either may throw.
TakeComputerPrimitive ==
    /\ pc = "take"
    /\ idx <= Len(output)
    /\ output[idx].type = "computer_call"
    /\ sub = "start"
    /\ executed' = executed \cup {output[idx].call_id}
    /\ \/ /\ sub' = "checks"
          /\ UNCHANGED <<pc, actionOutputs, threw>>
       \/ /\ BoundaryCatch
          /\ UNCHANGED sub
    /\ UNCHANGED <<browserVars, envVars, recVars, taskVars, loopVars, output,
                   idx, results, acked, rejected, logged, billVars, error,
                   result>>
    /\ UNCHANGED auxVars

\* takeComputerAction from the safety checks on: the callback is asked for
\* every pending check; a refusal throws, otherwise the output is returned
\* and pushed onto results.
TakeComputerSafety ==
    /\ pc = "take"
    /\ idx <= Len(output)
    /\ output[idx].type = "computer_call"
    /\ sub = "checks"
    /\ \/ /\ acked' = IF output[idx].checks
                        THEN acked \cup {output[idx].call_id} ELSE acked
          /\ results' = Append(results, ComputerCallOutput(output[idx]))
          /\ idx' = idx + 1
          /\ sub' = "start"
          /\ UNCHANGED <<pc, actionOutputs, rejected, threw>>
       \/ /\ output[idx].checks
          /\ rejected' = TRUE
          /\ BoundaryCatch
          /\ UNCHANGED <<acked, results, idx, sub>>
    /\ UNCHANGED <<browserVars, envVars, recVars, taskVars, loopVars, output,
                   executed, logged, billVars, error, result>>
    /\ UNCHANGED auxVars

\* takeFunctionAction: JSON.parse may throw before anything runs; the
\* browser method, when there is one, may throw; otherwise "success".
TakeFunctionAction ==
    /\ pc = "take"
    /\ idx <= Len(output)
    /\ output[idx].type = "function_call"
    /\ \/ /\ executed' = executed \cup {output[idx].call_id}
          /\ results' = Append(results, FunctionOutput(output[idx]))
          /\ idx' = idx + 1
          /\ UNCHANGED <<pc, actionOutputs, threw>>
       \/ /\ executed' = executed \cup {output[idx].call_id}
          /\ BoundaryCatch
          /\ UNCHANGED <<results, idx>>
       \/ /\ BoundaryCatch
          /\ UNCHANGED <<executed, results, idx>>
    /\ UNCHANGED <<browserVars, envVars, recVars, taskVars, loopVars, output,
                   sub, acked, rejected, logged, billVars, error, result>>
    /\ UNCHANGED auxVars

\* The end of takeAction's `for (const item of output)`.
AllDispatchedEarly(i, out) == TRUE

AllDispatched(i, out) == i > Len(out)

\* takeAction returns results; messages.push(...actionOutputs).
TakeActionReturn ==
    /\ pc = "take"
    /\ AllDispatched(idx, output)
    /\ actionOutputs' = results
    /\ pc' = "loop"
    /\ UNCHANGED <<browserVars, envVars, recVars, taskVars, loopVars, output,
                   idx, sub, results, executed, acked, rejected, threw, logged,
                   billVars, error, result>>
    /\ UNCHANGED auxVars

----------------------------------------------------------------------------
(* After the loop: the terminal write, billing, the daily task. *)

\* Bookkeeping of a terminal write: whether it changed the status, and
\* whether it found the record stopped by someone else.
NoteTerminalWrite ==
    /\ runWrites' = IF sessionDoc'.status # sessionDoc.status
                      THEN runWrites + 1 ELSE runWrites
    /\ skipped' = (skipped \/ sessionDoc.status = "stopped")
    /\ sessionAtSkip' = IF sessionDoc.status = "stopped" /\ ~skipped
                          THEN sessionDoc ELSE sessionAtSkip

\* AgentSession.findOneAndUpdate({_id, status: "running"}, {completed...}).
CompleteWrite ==
    /\ pc = "terminal"
    /\ \/ /\ SessionMatches(sessionDoc)
          /\ sessionDoc' = CompletedUpdate(sessionDoc, stepCount)
          /\ session' = "doc"
          /\ completedByRun' = (sessionDoc.status = "running")
          /\ pc' = IF DeductGuard("doc", sessionDoc') THEN "deduct" ELSE "daily"
          /\ NoteTerminalWrite
          /\ UNCHANGED error
       \/ /\ ~SessionMatches(sessionDoc)
          /\ session' = "null"
          /\ pc' = IF DeductGuard("null", sessionDoc) THEN "deduct" ELSE "daily"
          /\ UNCHANGED <<sessionDoc, completedByRun, error>>
          /\ NoteTerminalWrite
       \/ /\ Throw("db")
          /\ UNCHANGED <<sessionDoc, session, completedByRun, runWrites,
                         skipped, sessionAtSkip>>
    /\ UNCHANGED <<browserVars, envVars, failedSession, taskVars, loopVars,
                   turnVars, deductCalls, result>>
    /\ UNCHANGED auxVars

\* await deductCredits(userId, sessionMinutes, ...): it reports its outcome
\* in creditResult.success, which is only logged.
DeductCredits ==
    /\ pc = "deduct"
    /\ deductCalls' = deductCalls + 1
    /\ pc' = "daily"
    /\ UNCHANGED error
    /\ UNCHANGED <<browserVars, envVars, recVars, taskVars, loopVars,
                   turnVars, completedByRun, runWrites, skipped,
                   sessionAtSkip, result>>
    /\ UNCHANGED auxVars

\* `if (dailyTaskId && session)`: SessionLog.find, then
\* DailyTask.findByIdAndUpdate(dailyTaskId, {status: "completed", ...}).
DailyTaskCompleted ==
    /\ pc = "daily"
    /\ \/ /\ DailyTaskGuard(dailyTaskId, session)
          /\ dailyTask' = [dailyTask EXCEPT !.status = "completed"]
          /\ pc' = "return"
          /\ UNCHANGED error
       \/ /\ DailyTaskGuard(dailyTaskId, session)
          /\ Throw("db")
          /\ UNCHANGED dailyTask
       \/ /\ ~DailyTaskGuard(dailyTaskId, session)
          /\ pc' = "return"
          /\ UNCHANGED <<dailyTask, error>>
    /\ UNCHANGED <<browserVars, envVars, recVars, dailyTaskId, loopVars,
                   turnVars, billVars, result>>
    /\ UNCHANGED auxVars

\* return { success: true }
ReturnSuccess ==
    /\ pc = "return"
    /\ result' = "success"
    /\ pc' = "finally"
    /\ UNCHANGED <<browserVars, envVars, recVars, taskVars, loopVars,
                   turnVars, billVars, error>>
    /\ UNCHANGED auxVars

----------------------------------------------------------------------------
(* The catch handler and the finally block. *)

\* AgentSession.findOneAndUpdate({_id, status: "running"}, {failed...}); an
\* error thrown here leaves the handler, and the call rejects.
CatchWrite ==
    /\ pc = "catch"
    /\ \/ /\ SessionMatches(sessionDoc)
          /\ sessionDoc' = FailedUpdate(sessionDoc, error)
          /\ failedSession' = "doc"
          /\ pc' = "catchdaily"
          /\ NoteTerminalWrite
          /\ UNCHANGED result
       \/ /\ ~SessionMatches(sessionDoc)
          /\ failedSession' = "null"
          /\ pc' = "catchdaily"
          /\ UNCHANGED <<sessionDoc, result>>
          /\ NoteTerminalWrite
       \/ /\ result' = "threw"
          /\ pc' = "finally"
          /\ UNCHANGED <<sessionDoc, failedSession, runWrites, skipped,
                         sessionAtSkip>>
    /\ UNCHANGED <<browserVars, envVars, session, taskVars, loopVars,
                   turnVars, deductCalls, completedByRun, error>>
    /\ UNCHANGED auxVars

\* `if (dailyTaskId && failedSession)`:
\* DailyTask.findByIdAndUpdate(dailyTaskId, {status: "pending", error}).
CatchDailyTask ==
    /\ pc = "catchdaily"
    /\ \/ /\ dailyTaskId /\ failedSession = "doc"
          /\ dailyTask' = [status |-> "pending", error |-> error]
          /\ pc' = "catchdisc"
          /\ UNCHANGED result
       \/ /\ dailyTaskId /\ failedSession = "doc"
          /\ result' = "threw"
          /\ pc' = "finally"
          /\ UNCHANGED dailyTask
       \/ /\ ~(dailyTaskId /\ failedSession = "doc")
          /\ pc' = "catchdisc"
          /\ UNCHANGED <<dailyTask, result>>
    /\ UNCHANGED <<browserVars, envVars, recVars, dailyTaskId, loopVars,
                   turnVars, billVars, error>>
    /\ UNCHANGED auxVars

\* `if (browser) { try { await browser.disconnect(); browser = null } ... }`
\* then return { success: false, error }.
CatchDisconnect ==
    /\ pc = "catchdisc"
    /\ \/ /\ browser # "null"
          /\ disconnectCalls' = disconnectCalls + 1
          /\ browser' \in {"null", browser}
       \/ /\ browser = "null"
          /\ UNCHANGED <<browser, disconnectCalls>>
    /\ result' = "failure"
    /\ pc' = "finally"
    /\ UNCHANGED <<everConstructed, browserReady, envVars, recVars, taskVars, loopVars,
                   turnVars, billVars, error>>
    /\ UNCHANGED auxVars

\* finally { if (browser) { try { await browser.disconnect() } ... } }
Finally ==
    /\ pc = "finally"
    /\ disconnectCalls' = IF FinallyDisconnects(browser)
                            THEN disconnectCalls + 1 ELSE disconnectCalls
    /\ pc' = "done"
    /\ UNCHANGED <<browser, everConstructed, browserReady, envVars, recVars, taskVars,
                   loopVars, turnVars, billVars, error, result>>
    /\ UNCHANGED auxVars

----------------------------------------------------------------------------
(* External writers. *)

\* The user pauses the agent (isDeployed becomes false) or the agent
\* document is removed: the loop's test reads both the same way.
Pause ==
    /\ pc # "done"
    /\ isDeployed
    /\ isDeployed' = FALSE
    /\ cancel' = IF cancel = "none" /\ pc \in LoopPcs
                   THEN (IF pc = "loop" THEN "between" ELSE "now")
                   ELSE cancel
    /\ UNCHANGED <<pc, browserVars, recVars, taskVars, loopVars, turnVars,
                   billVars, error, result>>
    /\ UNCHANGED auxVars

\* Another deployment of the agent: findByIdAndUpdate(agentId, {isDeployed: true}).
Redeploy ==
    /\ pc # "done"
    /\ ~isDeployed
    /\ isDeployed' = TRUE
    /\ UNCHANGED <<pc, cancel, browserVars, recVars, taskVars, loopVars, turnVars,
                   billVars, error, result>>
    /\ UNCHANGED auxVars

\* A manual stop of the session moves the record out of running.
ManualStop ==
    /\ pc # "done"
    /\ sessionDoc.status = "running"
    /\ sessionDoc' = [sessionDoc EXCEPT !.status = "stopped", !.completedAt = "stop"]
    /\ UNCHANGED <<pc, browserVars, envVars, session, failedSession, taskVars,
                   loopVars, turnVars, billVars, error, result>>
    /\ UNCHANGED auxVars

----------------------------------------------------------------------------
RunNext ==
    \/ NewBrowser
    \/ Connect
    \/ StoreSessionId
    \/ Readiness
    \/ Credentials
    \/ LoopHead
    \/ CheckDeployed
    \/ GetAction
    \/ LogActions
    \/ SkipMessage
    \/ TakeComputerPrimitive
    \/ TakeComputerSafety
    \/ TakeFunctionAction
    \/ TakeActionReturn
    \/ CompleteWrite
    \/ DeductCredits
    \/ DailyTaskCompleted
    \/ ReturnSuccess
    \/ CatchWrite
    \/ CatchDailyTask
    \/ CatchDisconnect
    \/ Finally

EnvNext ==
    \/ Pause
    \/ Redeploy
    \/ ManualStop

Next == RunNext \/ EnvNext

Spec == Init /\ [][Next]_vars

\* Every await of the run returns or throws: the run keeps taking steps.
FairSpec == Spec /\ WF_vars(RunNext)

----------------------------------------------------------------------------
(* substituteCredentials(prompt, credentials) on its own.  A prompt and a  *)
(* credential value are sequences of tokens: ordinary text, or one of the  *)
(* placeholder tokens.                                                     *)

\* Longest prompt and longest credential value, in tokens.
MaxPromptLen == 2

MaxValueLen == 1

\* The keys of placeholderPatterns, in the order of the array (the last
\* two general-purpose ones before username).
placeholderPatterns == <<"email", "password">>

PatternKeys == {placeholderPatterns[i] : i \in 1..Len(placeholderPatterns)}

\* The token the regex of a key matches: "{key}".
Placeholder(key) == [ph |-> key]

Tokens == {[ph |-> "text"]} \cup {Placeholder(k) : k \in PatternKeys}

SeqsUpTo(S, n) == UNION {[1..k -> S] : k \in 0..n}

\* substitutedPrompt.match(pattern.regex)
Matches(text, key) == \E i \in 1..Len(text) : text[i] = Placeholder(key)

\* substitutedPrompt.replace(pattern.regex, credentialValue) with the g
\* flag: every occurrence in the current text is replaced.
RECURSIVE ReplaceAll(_, _, _)
ReplaceAll(text, key, value) ==
    IF text = <<>> THEN <<>>
    ELSE (IF Head(text) = Placeholder(key) THEN value ELSE <<Head(text)>>)
           \o ReplaceAll(Tail(text), key, value)

\* The for loop over placeholderPatterns from the i-th pattern on: the
\* text so far is matched; an empty or absent value is recorded as
\* missing, any other replaces the occurrences.
RECURSIVE SubstituteFrom(_, _, _, _)
SubstituteFrom(i, text, creds, missing) ==
    IF i > Len(placeholderPatterns)
      THEN [text |-> text, missing |-> missing]
      ELSE LET key == placeholderPatterns[i] IN
           IF Matches(text, key)
             THEN IF creds[key] = <<>>
                    THEN SubstituteFrom(i + 1, text, creds, Append(missing, key))
                    ELSE SubstituteFrom(i + 1, ReplaceAll(text, key, creds[key]),
                                        creds, missing)
             ELSE SubstituteFrom(i + 1, text, creds, missing)

\* The whole function: the loop, then the throw on missing credentials.
substituteCredentials(p, creds) ==
    LET r == SubstituteFrom(1, p, creds, <<>>) IN
    IF Len(r.missing) > 0
      THEN [state |-> "threw", missing |-> r.missing, text |-> <<>>]
      ELSE [state |-> "returned", missing |-> <<>>, text |-> r.text]

SubstInit ==
    /\ RunInit /\ ~dailyTaskId
    /\ ReadyIdle /\ DeployIdle /\ ShIdle
    /\ RetryIdle /\ FnIdle /\ PostIdle
    /\ prompt \in SeqsUpTo(Tokens, MaxPromptLen)
    /\ credentials \in [PatternKeys -> SeqsUpTo(Tokens, MaxValueLen)]
    /\ substitutedPrompt = [state |-> "pending"]

\* The call.
Substitute ==
    /\ substitutedPrompt.state = "pending"
    /\ substitutedPrompt' = substituteCredentials(prompt, credentials)
    /\ UNCHANGED <<prompt, credentials, runVars, restVars, retryVars, fnVars, postVars>>

SubstNext == Substitute

SubstSpec == SubstInit /\ [][SubstNext]_vars

----------------------------------------------------------------------------
(* One createResponse call: axios.post under the axios-retry               *)
(* configuration of agent.ts.                                              *)

\* `retries: 5`
retries == 5

\* Largest retry number the delay function is asked about.
MaxRetryCount == 7

\* `const retryableStatuses = [408, 409, 429, 500, 502, 503, 504]`
retryableStatusesWith404 == {404, 408, 409, 429, 500, 502, 503, 504}

retryableStatuses == {408, 409, 429, 500, 502, 503, 504}

\* `const rateLimitDelays = [5000, 15000, 30000, 60000, 120000]`
rateLimitDelaysFlat == <<5000, 5000, 5000, 5000, 5000>>

rateLimitDelays == <<5000, 15000, 30000, 60000, 120000>>

\* The statuses a failing attempt is given here: the retryable ones and
\* some others.
Statuses == retryableStatuses \cup {400, 401, 403, 404, 501}

\* The ways one attempt can fail: no response at all (a network error, or
\* a timeout, which axios reports as ECONNABORTED), or an error status.
AttemptErrors ==
    {[kind |-> "network", status |-> 0], [kind |-> "timeout", status |-> 0]}
        \cup {[kind |-> "status", status |-> st] : st \in Statuses}

\* axiosRetry.isNetworkOrIdempotentRequestError for the POST of
\* createResponse: POST is not an idempotent method, so only a network
\* error (no response, not ECONNABORTED) counts.
isNetworkOrIdempotentRequestError(e) == e.kind = "network"

\* retryCondition
retryCondition(e) ==
    \/ isNetworkOrIdempotentRequestError(e)
    \/ (e.status # 0 /\ e.status \in retryableStatuses)

\* 2 ^ n
RECURSIVE Pow2(_)
Pow2(n) == IF n = 0 THEN 1 ELSE 2 * Pow2(n - 1)

\* axiosRetry.exponentialDelay(retryCount, error), without its random
\* jitter of up to 20%.
exponentialDelay(n) == Pow2(n) * 100

\* retryDelay: `rateLimitDelays[retryCount - 1] || 120000` for a 429.
retryDelay(n, e) ==
    IF e.status = 429
      THEN IF n \in 1..Len(rateLimitDelays) THEN rateLimitDelays[n] ELSE 120000
      ELSE exponentialDelay(n)

\* axios-retry's own test before it asks retryCondition.
RetriesLeftInclusive(n) == n <= retries

RetriesLeft(n) == n < retries

RetryInit ==
    /\ RunInit /\ ~dailyTaskId
    /\ ReadyIdle /\ DeployIdle /\ ShIdle
    /\ SubstIdle /\ FnIdle /\ PostIdle
    /\ httpAttempts = 0
    /\ retryCount = 0
    /\ delays = <<>>
    /\ lastError = NoError
    /\ reqState = "sending"

\* One HTTP attempt: axios.post(url, options, {headers}) or a re-send.
SendRequest ==
    /\ reqState = "sending"
    /\ httpAttempts' = httpAttempts + 1
    /\ \/ /\ reqState' = "ok"
          /\ UNCHANGED lastError
       \/ \E e \in AttemptErrors :
            /\ lastError' = e
            /\ reqState' = "failed"
    /\ UNCHANGED <<retryCount, delays, runVars, restVars, substVars, fnVars, postVars>>

\* After a failed attempt: retry after retryDelay when retries are left
\* and retryCondition holds; otherwise the error reaches the catch of
\* createResponse, which rethrows it.
RetryOrSurface ==
    /\ reqState = "failed"
    /\ IF RetriesLeft(retryCount) /\ retryCondition(lastError)
         THEN /\ retryCount' = retryCount + 1
              /\ delays' = Append(delays,
                                  [retry |-> retryCount',
                                   rateLimited |-> lastError.status = 429,
                                   delay |-> retryDelay(retryCount', lastError)])
              /\ reqState' = "sending"
         ELSE /\ reqState' = "error"
              /\ UNCHANGED <<retryCount, delays>>
    /\ UNCHANGED <<httpAttempts, lastError, runVars, restVars, substVars, fnVars,
                   postVars>>

RetryNext ==
    \/ SendRequest
    \/ RetryOrSurface

RetrySpec == RetryInit /\ [][RetryNext]_vars

----------------------------------------------------------------------------
(* Agent.takeFunctionAction(functionItem) on its own.                      *)

\* Largest call_id of a function item here.
MaxCallId == 3

\* Function names the model may emit: the two declared tools, a name the
\* browser has no method for, and the name of a method that is no tool.
FunctionNames == {"goto", "back", "unknown_tool", "disconnect"}

\* The names for which `typeof this.computer[name] === "function"`: the
\* declared tools, the screenshot the agent itself calls, and the connect
\* and disconnect the deploy route calls on the same object.
ComputerMethods == {"goto", "back", "screenshot", "connect", "disconnect"}

\* The argument strings tried: objects with 0, 1 and 2 members, an array,
\* the JSON text null, and a string that is not JSON.
ArgumentStrings ==
    {"{}", "{\"url\":\"u\"}", "{\"x\":\"1\",\"y\":\"2\"}", "[\"a\",\"b\"]",
     "null", "not json"}

\* JSON.parse followed by Object.values: parse fails on a non-JSON string;
\* Object.values fails on null; otherwise the member values in order.
ParseArguments(str) ==
    CASE str = "{}" -> [parsed |-> TRUE, hasValues |-> TRUE, values |-> <<>>]
      [] str = "{\"url\":\"u\"}" ->
            [parsed |-> TRUE, hasValues |-> TRUE, values |-> <<"u">>]
      [] str = "{\"x\":\"1\",\"y\":\"2\"}" ->
            [parsed |-> TRUE, hasValues |-> TRUE, values |-> <<"1", "2">>]
      [] str = "[\"a\",\"b\"]" ->
            [parsed |-> TRUE, hasValues |-> TRUE, values |-> <<"a", "b">>]
      [] str = "null" -> [parsed |-> TRUE, hasValues |-> FALSE, values |-> <<>>]
      [] OTHER -> [parsed |-> FALSE, hasValues |-> FALSE, values |-> <<>>]

\* `this.computer && typeof this.computer[name] === "function"`
ExposesOperationAlways(name) == TRUE

ExposesOperation(name) == name \in ComputerMethods

\* The object takeFunctionAction returns.
FunctionCallResult(item) ==
    [type |-> "function_call_output", call_id |-> item.call_id,
     output |-> "success"]

\* takeFunctionAction: what it invoked on the browser and how it ended.
\* methodThrows says whether the browser method, if called, throws.
takeFunctionAction(item, methodThrows) ==
    LET args == ParseArguments(item.arguments)
        call == [name |-> item.name, args |-> args.values]
        thrown(inv) == [state |-> "threw", invoked |-> inv,
                        output |-> [type |-> "none"]]
    IN  IF ~args.parsed THEN thrown(<<>>)
        ELSE IF ExposesOperation(item.name)
               THEN IF ~args.hasValues THEN thrown(<<>>)
                    ELSE IF methodThrows THEN thrown(<<call>>)
                    ELSE [state |-> "returned", invoked |-> <<call>>,
                          output |-> FunctionCallResult(item)]
               ELSE [state |-> "returned", invoked |-> <<>>,
                     output |-> FunctionCallResult(item)]

FnInit ==
    /\ RunInit /\ ~dailyTaskId
    /\ ReadyIdle /\ DeployIdle /\ ShIdle
    /\ SubstIdle /\ RetryIdle /\ PostIdle
    /\ functionItem \in [name : FunctionNames, arguments : ArgumentStrings,
                          call_id : 1..MaxCallId]
    /\ fnReturn = [state |-> "pending"]

\* The call.
CallTakeFunctionAction ==
    /\ fnReturn.state = "pending"
    /\ \E methodThrows \in BOOLEAN :
          fnReturn' = takeFunctionAction(functionItem, methodThrows)
    /\ UNCHANGED <<functionItem, runVars, restVars, substVars, retryVars, postVars>>

FnNext == CallTakeFunctionAction

FnSpec == FnInit /\ [][FnNext]_vars

----------------------------------------------------------------------------
(* The POST handler of the deploy route, one request, up to the start of   *)
(* the background execution.  postReq says what each check will find.      *)

\* NextResponse.json(..., {status}) and the end of the handler.
Respond(status, reason) ==
    /\ postResponse' = [status |-> status, reason |-> reason]
    /\ postPc' = "responded"

\* An await inside the try block throws: the outer catch answers 500.
PostThrows == Respond(500, "error")

\* `creditCheck.sufficient`
CreditsOkAlways(req) == TRUE

CreditsOk(req) == req.sufficient

PostInit ==
    /\ RunInit /\ ~dailyTaskId
    /\ ReadyIdle /\ DeployIdle /\ ShIdle
    /\ SubstIdle /\ RetryIdle /\ FnIdle
    /\ postReq \in [allowed : BOOLEAN, authed : BOOLEAN, validId : BOOLEAN,
                     agentFound : BOOLEAN, sufficient : BOOLEAN,
                     keyValid : BOOLEAN, pendingTask : BOOLEAN,
                     hasPlan : BOOLEAN]
    /\ postPc = "rate"
    /\ postResponse = NoResponse
    /\ postEffects = {}

\* applyRateLimit, before the try block.
ApplyRateLimit ==
    /\ postPc = "rate"
    /\ IF ~postReq.allowed
         THEN Respond(429, "rate")
         ELSE postPc' = "auth" /\ UNCHANGED postResponse
    /\ UNCHANGED <<postReq, postEffects, runVars, restVars, substVars, retryVars, fnVars>>

\* getUserId
GetUserId ==
    /\ postPc = "auth"
    /\ IF ~postReq.authed
         THEN Respond(401, "unauthorized")
         ELSE postPc' = "id" /\ UNCHANGED postResponse
    /\ UNCHANGED <<postReq, postEffects, runVars, restVars, substVars, retryVars, fnVars>>

\* mongoose.Types.ObjectId.isValid(agentId), then connectDB
ValidateId ==
    /\ postPc = "id"
    /\ \/ IF ~postReq.validId
            THEN Respond(400, "invalidId")
            ELSE postPc' = "agent" /\ UNCHANGED postResponse
       \/ postReq.validId /\ PostThrows
    /\ UNCHANGED <<postReq, postEffects, runVars, restVars, substVars, retryVars, fnVars>>

\* AgentModel.findOne({_id: agentId, userId})
FindAgent ==
    /\ postPc = "agent"
    /\ \/ IF ~postReq.agentFound
            THEN Respond(404, "notFound")
            ELSE postPc' = "credits" /\ UNCHANGED postResponse
       \/ PostThrows
    /\ UNCHANGED <<postReq, postEffects, runVars, restVars, substVars, retryVars, fnVars>>

\* checkSufficientCredits
CheckCredits ==
    /\ postPc = "credits"
    /\ \/ IF ~CreditsOk(postReq)
            THEN Respond(402, "credits")
            ELSE postPc' = "key" /\ UNCHANGED postResponse
       \/ PostThrows
    /\ UNCHANGED <<postReq, postEffects, runVars, restVars, substVars, retryVars, fnVars>>

\* validateOpenAIKey
ValidateKey ==
    /\ postPc = "key"
    /\ \/ IF ~postReq.keyValid
            THEN Respond(500, "key")
            ELSE postPc' = "task" /\ UNCHANGED postResponse
       \/ PostThrows
    /\ UNCHANGED <<postReq, postEffects, runVars, restVars, substVars, retryVars, fnVars>>

\* DailyTask.find({... status: "pending"}): a pending task is set running;
\* with none, a missing agent.executionPrompt is answered 400.
SelectTask ==
    /\ postPc = "task"
    /\ \/ /\ postReq.pendingTask
          /\ postEffects' = postEffects \cup {"taskRunning"}
          /\ postPc' = "deploy"
          /\ UNCHANGED postResponse
       \/ /\ ~postReq.pendingTask
          /\ IF ~postReq.hasPlan
               THEN Respond(400, "noPlan")
               ELSE postPc' = "deploy" /\ UNCHANGED postResponse
          /\ UNCHANGED postEffects
       \/ /\ PostThrows
          /\ UNCHANGED postEffects
    /\ UNCHANGED <<postReq, runVars, restVars, substVars, retryVars, fnVars>>

\* AgentModel.findByIdAndUpdate(agentId, {isDeployed: true})
SetDeployed ==
    /\ postPc = "deploy"
    /\ \/ /\ postEffects' = postEffects \cup {"isDeployed"}
          /\ postPc' = "session"
          /\ UNCHANGED postResponse
       \/ /\ PostThrows
          /\ UNCHANGED postEffects
    /\ UNCHANGED <<postReq, runVars, restVars, substVars, retryVars, fnVars>>

\* AgentSession.create({status: "running", startedAt})
CreateSession ==
    /\ postPc = "session"
    /\ \/ /\ postEffects' = postEffects \cup {"sessionCreated"}
          /\ postPc' = "start"
          /\ UNCHANGED postResponse
       \/ /\ PostThrows
          /\ UNCHANGED postEffects
    /\ UNCHANGED <<postReq, runVars, restVars, substVars, retryVars, fnVars>>

\* executeWithExecutionPrompt(...) is called and not awaited.
StartExecution ==
    /\ postPc = "start"
    /\ postEffects' = postEffects \cup {"executionStarted"}
    /\ postPc' = "poll"
    /\ UNCHANGED <<postReq, postResponse, runVars, restVars, substVars, retryVars,
                   fnVars>>

\* The polling for the session and the notification are over: 200.
RespondDeployed ==
    /\ postPc = "poll"
    /\ Respond(200, "deployed")
    /\ UNCHANGED <<postReq, postEffects, runVars, restVars, substVars, retryVars, fnVars>>

PostNext ==
    \/ ApplyRateLimit
    \/ GetUserId
    \/ ValidateId
    \/ FindAgent
    \/ CheckCredits
    \/ ValidateKey
    \/ SelectTask
    \/ SetDeployed
    \/ CreateSession
    \/ StartExecution
    \/ RespondDeployed

PostSpec == PostInit /\ [][PostNext]_vars

----------------------------------------------------------------------------
(* The readiness loop of executeWithExecutionPrompt with its clock.  Time  *)
(* is in milliseconds; readiness.elapsed is Date.now() - readinessStart.   *)

\* `const maxReadinessWait = 90000`
maxReadinessWait == 90000

\* `let retryDelay = 2000`
initialRetryDelay == 2000

\* `retryDelay = 5000`
backoffRetryDelay == 5000

\* The 30 of `elapsedSeconds > 30`.
backoffAfterSeconds == 30

\* How long a probe (browser.screenshot) may take before it returns or
\* throws.
ProbeTimes == {0, 1000}

\* `if (elapsedSeconds > 30 && retryDelay < 5000) retryDelay = 5000`
Backoff(elapsedSeconds, delay) ==
    IF elapsedSeconds > backoffAfterSeconds /\ delay < backoffRetryDelay
      THEN backoffRetryDelay ELSE delay

ReadyInit ==
    /\ RunInit /\ ~dailyTaskId
    /\ SubstIdle /\ RetryIdle /\ FnIdle /\ PostIdle
    /\ DeployIdle /\ ShIdle
    /\ readiness = [pc |-> "test", browserReady |-> FALSE,
                    retryDelay |-> initialRetryDelay, elapsed |-> 0,
                    elapsedSeconds |-> 0,
                    lastWait |-> [at |-> 0, wait |-> 0]]

\* while (Date.now() - readinessStart < maxReadinessWait)
ReadinessTest ==
    /\ readiness.pc = "test"
    /\ readiness' = [readiness EXCEPT
           !.pc = IF readiness.elapsed < maxReadinessWait
                    THEN "probe" ELSE "gate"]
    /\ UNCHANGED <<runVars, substVars, retryVars, fnVars, postVars, deployVars,
                   shVars>>

\* await browser.screenshot(): it returns (browserReady = true; break) or
\* throws (elapsedSeconds is computed in the catch).
Probe ==
    /\ readiness.pc = "probe"
    /\ \E d \in ProbeTimes, ok \in BOOLEAN :
          readiness' =
            IF ok THEN [readiness EXCEPT !.pc = "gate", !.browserReady = TRUE,
                                         !.elapsed = @ + d]
            ELSE [readiness EXCEPT !.pc = "sleep", !.elapsed = @ + d,
                      !.elapsedSeconds = (readiness.elapsed + d) \div 1000]
    /\ UNCHANGED <<runVars, substVars, retryVars, fnVars, postVars, deployVars,
                   shVars>>

\* await setTimeout(retryDelay), then the progressive backoff.  lastWait
\* records when the failed probe ended and how long the wait was.
Sleep ==
    /\ readiness.pc = "sleep"
    /\ readiness' = [readiness EXCEPT
           !.pc = "test",
           !.elapsed = @ + readiness.retryDelay,
           !.lastWait = [at |-> readiness.elapsed,
                         wait |-> readiness.retryDelay],
           !.retryDelay = Backoff(readiness.elapsedSeconds, @)]
    /\ UNCHANGED <<runVars, substVars, retryVars, fnVars, postVars, deployVars,
                   shVars>>

\* `if (!browserReady) throw new Error("Browser failed to become ready...")`
ReadinessGate ==
    /\ readiness.pc = "gate"
    /\ readiness' = [readiness EXCEPT
           !.pc = IF ReadyGate(readiness.browserReady)
                    THEN "ready" ELSE "failed"]
    /\ UNCHANGED <<runVars, substVars, retryVars, fnVars, postVars, deployVars,
                   shVars>>

ReadyNext ==
    \/ ReadinessTest
    \/ Probe
    \/ Sleep
    \/ ReadinessGate

ReadySpec == ReadyInit /\ [][ReadyNext]_vars

----------------------------------------------------------------------------
(* Concurrent accepted deployments of one agent: POST from the selection   *)
(* of the DailyTask to the response, and what the executions they start    *)
(* write to the same documents.  Every request here has passed the checks  *)
(* of POST and its agent has an executionPrompt.                           *)

\* The requests in flight.
Deployments == {1, 2}

\* The agent's DailyTasks are days 1..MaxDay.
MaxDay == 2

DayNumbers == 1..MaxDay

\* The sort order of the query for the next task, reversed.
nextPendingTaskLargest(tasks) ==
    IF \E d \in DayNumbers : tasks[d] = "pending"
      THEN CHOOSE d \in DayNumbers :
             /\ tasks[d] = "pending"
             /\ \A e \in DayNumbers : tasks[e] = "pending" => e <= d
      ELSE 0

\* DailyTask.find({agentId, userId, status: "pending"})
\*   .sort({dayNumber: 1}).limit(1); 0 when the result is empty.
nextPendingTask(tasks) ==
    IF \E d \in DayNumbers : tasks[d] = "pending"
      THEN CHOOSE d \in DayNumbers :
             /\ tasks[d] = "pending"
             /\ \A e \in DayNumbers : tasks[e] = "pending" => d <= e
      ELSE 0

\* AgentSession.findOne({agentId, userId, status: "running"})
\*   .sort({_id: -1}): the newest running session of the agent, 0 for null.
runningSession(sessions) ==
    IF \E i \in 1..Len(sessions) : sessions[i].status = "running"
      THEN CHOOSE i \in 1..Len(sessions) :
             /\ sessions[i].status = "running"
             /\ \A j \in 1..Len(sessions) :
                   sessions[j].status = "running" => j <= i
      ELSE 0

\* `runningSession && runningSession.browserSessionId`
PollFinds(sessions) ==
    /\ runningSession(sessions) # 0
    /\ sessions[runningSession(sessions)].browserSessionId

DeployInit ==
    /\ RunInit /\ ~dailyTaskId
    /\ SubstIdle /\ RetryIdle /\ FnIdle /\ PostIdle
    /\ ReadyIdle /\ ShIdle
    /\ \E t \in [DayNumbers -> {"pending", "completed"}] :
          db = [tasks |-> t, sessions |-> <<>>, isDeployed |-> FALSE]
    /\ deploys = [r \in Deployments |->
                    [pc |-> "find", task |-> 0, marked |-> FALSE,
                     executionPrompt |-> [of |-> "none", day |-> 0],
                     session |-> 0, sessionInfo |-> 0, run |-> "none",
                     response |-> [status |-> 0, session |-> 0]]]

DeployFrame ==
    UNCHANGED <<runVars, substVars, retryVars, fnVars, postVars, readyVars,
                shVars>>

\* The query for the next pending task; executionPrompt becomes the task's
\* prompt (named by its day) or stays agent.executionPrompt.
SelectPendingTask(r) ==
    /\ deploys[r].pc = "find"
    /\ LET t == nextPendingTask(db.tasks) IN
         deploys' = [deploys EXCEPT ![r] =
            [@ EXCEPT !.task = t,
                      !.executionPrompt =
                          IF t # 0 THEN [of |-> "task", day |-> t]
                          ELSE [of |-> "agent", day |-> 0],
                      !.pc = IF t # 0 THEN "mark" ELSE "deploy"]]
    /\ UNCHANGED db
    /\ DeployFrame

\* await DailyTask.findByIdAndUpdate(task._id, {status: "running"})
MarkTaskRunning(r) ==
    /\ deploys[r].pc = "mark"
    /\ db' = [db EXCEPT !.tasks[deploys[r].task] = "running"]
    /\ deploys' = [deploys EXCEPT ![r] = [@ EXCEPT !.marked = TRUE,
                                                    !.pc = "deploy"]]
    /\ DeployFrame

\* AgentModel.findByIdAndUpdate(agentId, {isDeployed: true})
MarkDeployed(r) ==
    /\ deploys[r].pc = "deploy"
    /\ db' = [db EXCEPT !.isDeployed = TRUE]
    /\ deploys' = [deploys EXCEPT ![r] = [@ EXCEPT !.pc = "session"]]
    /\ DeployFrame

\* AgentSession.create({userId, agentId, status: "running", startedAt})
CreateAgentSession(r) ==
    /\ deploys[r].pc = "session"
    /\ db' = [db EXCEPT !.sessions =
                 Append(@, [owner |-> r, status |-> "running",
                            browserSessionId |-> FALSE])]
    /\ deploys' = [deploys EXCEPT ![r] =
                     [@ EXCEPT !.session = Len(db.sessions) + 1,
                               !.pc = "start"]]
    /\ DeployFrame

\* executeWithExecutionPrompt(agentId, session._id, executionPrompt, ...,
\* currentDailyTaskId, userId), not awaited.
LaunchExecution(r) ==
    /\ deploys[r].pc = "start"
    /\ deploys' = [deploys EXCEPT ![r] = [@ EXCEPT !.run = "started",
                                                    !.pc = "poll"]]
    /\ UNCHANGED db
    /\ DeployFrame

\* A poll that finds a running session with a browserSessionId: break.
PollSession(r) ==
    /\ deploys[r].pc = "poll"
    /\ PollFinds(db.sessions)
    /\ deploys' = [deploys EXCEPT ![r] =
                     [@ EXCEPT !.sessionInfo = runningSession(db.sessions),
                               !.pc = "respond"]]
    /\ UNCHANGED db
    /\ DeployFrame

\* The polls found nothing and maxWaitTime has passed.
PollTimeout(r) ==
    /\ deploys[r].pc = "poll"
    /\ ~PollFinds(db.sessions)
    /\ deploys' = [deploys EXCEPT ![r] = [@ EXCEPT !.pc = "respond"]]
    /\ UNCHANGED db
    /\ DeployFrame

\* A poll throws: the inner catch rolls isDeployed back.
PollThrows(r) ==
    /\ deploys[r].pc = "poll"
    /\ db' = [db EXCEPT !.isDeployed = FALSE]
    /\ deploys' = [deploys EXCEPT ![r] = [@ EXCEPT !.pc = "respond"]]
    /\ DeployFrame

\* The 200 response with session: sessionInfo.
RespondSuccess(r) ==
    /\ deploys[r].pc = "respond"
    /\ deploys' = [deploys EXCEPT ![r] =
                     [@ EXCEPT !.response = [status |-> 200,
                                             session |-> deploys[r].sessionInfo],
                               !.pc = "done"]]
    /\ UNCHANGED db
    /\ DeployFrame

\* The execution connects its browser and stores the browser session id
\* on its own session record.
ExecutionStoresSessionId(r) ==
    /\ deploys[r].run = "started"
    /\ db' = [db EXCEPT !.sessions[deploys[r].session].browserSessionId = TRUE]
    /\ deploys' = [deploys EXCEPT ![r] = [@ EXCEPT !.run = "executing"]]
    /\ DeployFrame

\* The execution ends: its conditional write moves its session from running
\* to completed or failed, and its DailyTask to completed or back to
\* pending.
ExecutionEnds(r) ==
    /\ deploys[r].run \in {"started", "executing"}
    /\ \E outcome \in {"completed", "failed"} :
         LET s == deploys[r].session
             t == deploys[r].task
             wrote == db.sessions[s].status = "running"
             d1 == IF wrote THEN [db EXCEPT !.sessions[s].status = outcome]
                   ELSE db
         IN  db' = IF t # 0 /\ wrote
                     THEN [d1 EXCEPT !.tasks[t] =
                             IF outcome = "completed" THEN "completed"
                             ELSE "pending"]
                     ELSE d1
    /\ deploys' = [deploys EXCEPT ![r] = [@ EXCEPT !.run = "ended"]]
    /\ DeployFrame

DeployNext ==
    \E r \in Deployments :
        \/ SelectPendingTask(r)
        \/ MarkTaskRunning(r)
        \/ MarkDeployed(r)
        \/ CreateAgentSession(r)
        \/ LaunchExecution(r)
        \/ PollSession(r)
        \/ PollTimeout(r)
        \/ PollThrows(r)
        \/ RespondSuccess(r)
        \/ ExecutionStoresSessionId(r)
        \/ ExecutionEnds(r)

DeploySpec == DeployInit /\ [][DeployNext]_vars

----------------------------------------------------------------------------
(* The POST handler of the Stagehand example route and the close() of the  *)
(* StagehandBrowser wrapper.                                               *)

\* The actions of the switch.
ShActions == {"act", "extract", "observe", "agent"}

\* What body.action may be: a known action, another string, absent, or
\* the body is not JSON at all.
ShBodies == ShActions \cup {"bogus", "none", "invalid json"}

\* `if (stagehand)` of the finally block.
ShFinallyClosesNever(local) == FALSE

ShFinallyCloses(local) == local.constructed

\* StagehandBrowser.close(): `if (this.stagehand) { await
\* this.stagehand.close(); this.stagehand = null }`; innerThrows says
\* whether Stagehand's own close throws.
close(wrapper, innerThrows) ==
    IF wrapper.stagehand # "null"
      THEN [wrapper |-> IF innerThrows THEN wrapper
                         ELSE [wrapper EXCEPT !.stagehand = "null"],
            inner |-> 1, threw |-> innerThrows]
      ELSE [wrapper |-> wrapper, inner |-> 0, threw |-> FALSE]

ShInit ==
    /\ RunInit /\ ~dailyTaskId
    /\ SubstIdle /\ RetryIdle /\ FnIdle /\ PostIdle
    /\ ReadyIdle /\ DeployIdle
    /\ shReq \in [action : ShBodies, sessionId : BOOLEAN]
    /\ shPc = "json"
    /\ stagehand = NoWrapper
    /\ closeCalls = NoCloseCalls
    /\ shResponse = 0

ShFrame ==
    UNCHANGED <<shReq, runVars, substVars, retryVars, fnVars, postVars,
                readyVars, deployVars>>

\* A return or a caught throw inside the try: the response is decided and
\* the finally block runs.
ShReturn(status) ==
    /\ shResponse' = status
    /\ shPc' = "finally"

\* await request.json() and `if (!action)`.
ParseBody ==
    /\ shPc = "json"
    /\ CASE shReq.action = "invalid json" -> ShReturn(500)
         [] shReq.action = "none" -> ShReturn(400)
         [] OTHER -> shPc' = "construct" /\ UNCHANGED shResponse
    /\ UNCHANGED <<stagehand, closeCalls>>
    /\ ShFrame

\* stagehand = new StagehandBrowser(sessionId || null)
ConstructWrapper ==
    /\ shPc = "construct"
    /\ stagehand' = [constructed |-> TRUE, stagehand |-> "null"]
    /\ shPc' = "init"
    /\ UNCHANGED <<closeCalls, shResponse>>
    /\ ShFrame

\* await stagehand.init(): new Stagehand(config) may throw, leaving the
\* field null; this.stagehand.init() may throw, leaving the instance.
InitWrapper ==
    /\ shPc = "init"
    /\ \/ /\ ShReturn(500)
          /\ UNCHANGED stagehand
       \/ /\ ShReturn(500)
          /\ stagehand' = [stagehand EXCEPT !.stagehand = "created"]
       \/ /\ stagehand' = [stagehand EXCEPT !.stagehand = "ready"]
          /\ shPc' = "switch"
          /\ UNCHANGED shResponse
    /\ UNCHANGED closeCalls
    /\ ShFrame

\* switch (action): a known action begins with goto; default returns 400.
SwitchAction ==
    /\ shPc = "switch"
    /\ IF shReq.action \in ShActions
         THEN shPc' = "goto" /\ UNCHANGED shResponse
         ELSE ShReturn(400)
    /\ UNCHANGED <<stagehand, closeCalls>>
    /\ ShFrame

\* await stagehand.goto(body.url || ...)
GotoUrl ==
    /\ shPc = "goto"
    /\ \/ shPc' = "primitive" /\ UNCHANGED shResponse
       \/ ShReturn(500)
    /\ UNCHANGED <<stagehand, closeCalls>>
    /\ ShFrame

\* await stagehand.act / extract / observe / runAgent
RunPrimitive ==
    /\ shPc = "primitive"
    /\ \/ shPc' = "screenshot" /\ UNCHANGED shResponse
       \/ ShReturn(500)
    /\ UNCHANGED <<stagehand, closeCalls>>
    /\ ShFrame

\* await stagehand.screenshot(), then the success response.
TakeScreenshot ==
    /\ shPc = "screenshot"
    /\ \/ ShReturn(200)
       \/ ShReturn(500)
    /\ UNCHANGED <<stagehand, closeCalls>>
    /\ ShFrame

\* finally { if (stagehand) await stagehand.close() }: when close throws,
\* the handler's promise rejects and the framework answers 500.
FinallyClose ==
    /\ shPc = "finally"
    /\ IF ShFinallyCloses(stagehand)
         THEN \E innerThrows \in BOOLEAN :
                LET c == close(stagehand, innerThrows) IN
                /\ stagehand' = c.wrapper
                /\ closeCalls' = [closeCalls EXCEPT !.handler = @ + 1,
                                                    !.inner = @ + c.inner,
                                                    !.threw = c.threw]
                /\ shResponse' = IF c.threw THEN 500 ELSE shResponse
         ELSE UNCHANGED <<stagehand, closeCalls, shResponse>>
    /\ shPc' = "finished"
    /\ ShFrame

\* close() called once more on the same wrapper after the handler.
CloseAgain ==
    /\ shPc = "finished"
    /\ stagehand.constructed
    /\ closeCalls.again = 0
    /\ \E innerThrows \in BOOLEAN :
          LET c == close(stagehand, innerThrows) IN
          /\ stagehand' = c.wrapper
          /\ closeCalls' = [closeCalls EXCEPT !.again = @ + 1,
                                              !.inner = @ + c.inner,
                                              !.threw = c.threw]
    /\ UNCHANGED <<shPc, shResponse>>
    /\ ShFrame

ShNext ==
    \/ ParseBody
    \/ ConstructWrapper
    \/ InitWrapper
    \/ SwitchAction
    \/ GotoUrl
    \/ RunPrimitive
    \/ TakeScreenshot
    \/ FinallyClose
    \/ CloseAgain

StagehandSpec == ShInit /\ [][ShNext]_vars

----------------------------------------------------------------------------
(* Properties. *)

InitialDailyTask ==
    [status |-> IF dailyTaskId THEN "running" ELSE "none", error |-> "none"]

HandlerPcs == {"catch", "catchdaily", "catchdisc", "finally", "done"}

\* C1: when a terminal write of the run (on the completion path or in the
\* catch handler) finds the record already stopped by a manual stop, the
\* run leaves the record exactly as it found it, calls deductCredits zero
\* times and never writes the DailyTask.
C1_StoppedRunSkipsSideEffects ==
    skipped => /\ sessionDoc = sessionAtSkip
               /\ deductCalls = 0
               /\ dailyTask = InitialDailyTask

C1_Witness ==
    /\ skipped
    /\ pc = "done"
    /\ dailyTaskId
    /\ result = "success"

\* C2: deductCredits is called at most once in a run, and only after the
\* run's own conditional update moved the record from running to completed.
C2_DeductOnlyAfterOwnCompletion ==
    /\ deductCalls <= 1
    /\ deductCalls = 1 => completedByRun
    /\ pc = "deduct" => completedByRun

C2_Witness ==
    /\ deductCalls = 1
    /\ completedByRun
    /\ pc = "done"

\* C3: a run that moved the record to failed, or that returned
\* success:false, never called deductCredits.
C3_FailuresNeverCharge ==
    (sessionDoc.status = "failed" \/ result = "failure") => deductCalls = 0

\* C4: the run changes the record's status at most once, and once the record
\* is completed or failed no step changes its status, errorMessage or
\* completedAt.
C4_FinalizedOnce ==
    /\ [](runWrites <= 1)
    /\ [][sessionDoc.status \in {"completed", "failed"}
            => /\ sessionDoc'.status = sessionDoc.status
               /\ sessionDoc'.errorMessage = sessionDoc.errorMessage
               /\ sessionDoc'.completedAt = sessionDoc.completedAt]_vars

C4_Witness ==
    /\ sessionDoc.status = "completed"
    /\ result = "failure"
    /\ failedSession = "null"
    /\ pc = "done"

\* Number of result items of the last turn that resolve call id c.
ResultsFor(c) ==
    Cardinality({j \in 1..Len(actionOutputs) :
                    /\ actionOutputs[j].call_id = c
                    /\ actionOutputs[j].type \in {"computer_call_output",
                                             "function_call_output"}})

\* C5: when a turn has ended and the loop goes on to build the next LLM
\* request, every computer_call and function_call of the turn's response
\* has exactly one result item with its call_id among the items the turn
\* pushed onto the conversation.
C5_EveryCallResolved ==
    (pc = "loop" /\ stepCount < maxSteps) =>
        \A i \in 1..Len(output) :
            IsCall(output[i]) => ResultsFor(output[i].call_id) = 1

\* C6: a computer_call with pending safety checks has its browser primitive
\* invoked only once all its checks were accepted.
C6_NoPrimitiveBeforeAcknowledgement ==
    \A i \in 1..Len(output) :
        (output[i].checks /\ output[i].call_id \in executed)
            => output[i].call_id \in acked

\* C7: once the callback rejected a safety check the run is in its error
\* handler (aborting, to end Failed); the rejection is not turned into a
\* conversation message with the loop going on.
C7_RejectionIsFatal ==
    rejected => /\ pc \in HandlerPcs
                /\ actionOutputs # <<ErrorMessageItem>>

\* C8: a run that constructed a browser has called browser.disconnect() at
\* least once when it returns or throws.
C8_BrowserReleased ==
    (pc = "done" /\ everConstructed) => disconnectCalls >= 1

C8_Witness ==
    /\ pc = "done"
    /\ everConstructed
    /\ result = "threw"
    /\ disconnectCalls = 1

\* C9 as stated: a run whose loop ended at the ceiling (every response
\* non-empty, the flag read set every time) and met no fatal error made
\* exactly 100 requests, has stepCount = 100, and its record is completed
\* with totalSteps = 100.
C9_CeilingRunCompleted ==
    (pc = "done" /\ stopReason = "maxSteps" /\ error = "none")
        => /\ stepCount = 100
           /\ llmRequests = 100
           /\ sessionDoc.status = "completed"
           /\ sessionDoc.totalSteps = 100

\* C9 amended: the same, for a run whose record was not stopped manually
\* before the terminal write.
C9_CeilingRunCompletedUnlessStopped ==
    (pc = "done" /\ stopReason = "maxSteps" /\ error = "none")
        => /\ stepCount = 100
           /\ llmRequests = 100
           /\ sessionDoc.status # "stopped"
                => /\ sessionDoc.status = "completed"
                   /\ sessionDoc.totalSteps = 100

C9_Witness ==
    /\ pc = "done"
    /\ stopReason = "maxSteps"
    /\ error = "none"
    /\ sessionDoc.status = "completed"
    /\ sessionDoc.totalSteps = 100
    /\ llmRequests = 100

\* C10: stepCount stays in 0..100 and never decreases, at most 100 LLM
\* requests are issued, and the loop is eventually left.
C10_BoundedLoopTerminates ==
    /\ [](stepCount \in 0..maxSteps /\ llmRequests <= maxSteps)
    /\ [][stepCount' >= stepCount]_vars
    /\ <>(pc \notin LoopPcs /\ pc \notin {"new", "connect", "store", "ready", "creds"})

C10_Witness ==
    /\ stepCount = maxSteps
    /\ llmRequests = maxSteps
    /\ pc = "terminal"

\* C11: an empty (or missing) output at turn k stops the loop at
\* stepCount = k on the completion path: the turn writes no log entry and
\* runs no browser action, a turn that is logged or executed has a
\* non-empty output, and no LLM request follows (the requests made are
\* exactly the k of the steps taken, 1 when the first output is empty).
C11_EmptyOutputStopsLoop ==
    /\ stopReason = "empty"
         => /\ pc \notin LoopPcs
            /\ llmRequests = stepCount
            /\ stepCount >= 1
            /\ logged = <<>>
            /\ executed = {}
    /\ pc \in {"log", "take"} => output # <<>>
    /\ (stopReason = "empty" /\ error = "none" /\ pc = "done")
         => result = "success"

C11_Witness ==
    /\ stopReason = "empty"
    /\ stepCount = 1
    /\ llmRequests = 1
    /\ pc = "terminal"

\* C12: the flag is read at the start of every iteration, before that
\* iteration's LLM request: the request position is entered only from the
\* check, with the flag set at that moment, and requests are made only
\* there.  When the read of iteration k+1 finds the flag cleared, the loop
\* is left with k requests made, nothing logged and nothing executed in
\* iteration k+1, and no request is made afterwards.
C12_FlagReadBeforeEveryRequest ==
    /\ [](stopReason = "paused"
            => /\ pc \notin LoopPcs
               /\ llmRequests = stepCount - 1
               /\ output = <<>>
               /\ logged = <<>>
               /\ executed = {})
    /\ [][(pc' = "get" /\ pc # "get") => (pc = "check" /\ isDeployed)]_vars
    /\ [][llmRequests' # llmRequests => pc = "get"]_vars

C12_Witness ==
    /\ stopReason = "paused"
    /\ stepCount = 3
    /\ llmRequests = 2
    /\ pc = "done"

\* C13: once the flag has been cleared while the run is inside its loop, the
\* run finishes at most the iteration in progress: no later iteration gets
\* past its check to the LLM request, whatever the external writers of the
\* flag do in between.
C13_CancellationWithinOneIteration ==
    cancel = "earlier" => pc # "get"

C15_BoundaryKeepsRunAlive ==
    /\ [](threw => /\ pc = "loop"
                   /\ actionOutputs = <<ErrorMessageItem>>
                   /\ error = "none"
                   /\ runWrites = 0
                   /\ sessionDoc.status \in {"running", "stopped"}
                   /\ result = "none")
    /\ [][(threw /\ stepCount < maxSteps /\ pc' # pc)
            => (pc' = "check" /\ stepCount' = stepCount + 1)]_vars
    /\ [][(pc = "check" /\ isDeployed /\ pc' # pc /\ error' = error)
            => pc' = "get"]_vars

C15_Witness ==
    /\ threw
    /\ pc = "loop"
    /\ stepCount = 2
    /\ isDeployed
    /\ sessionDoc.status = "running"
    /\ Len(output) = 2

\* C16: inside one takeAction call, a throwing item does not stop the
\* dispatch: every call item after it still has its browser primitive run.
C16_FailingActionDoesNotAbortRest ==
    threw => \A i \in (idx + 1)..Len(output) :
                 IsCall(output[i]) => output[i].call_id \in executed

\* The call items of an output, in order.
CallItems(out) == SelectSeq(out, IsCall)

\* C17: in a turn with a non-empty output, by the time takeAction starts
\* (and so before any browser primitive of the turn runs) the turn's
\* SessionLog entries are there: one per computer_call and function_call,
\* in order, with stepNumber = stepCount, and none for a message.
C17_LoggedBeforeExecuted ==
    (pc = "take" \/ executed # {})
        => /\ Len(logged) = Len(CallItems(output))
           /\ \A j \in 1..Len(logged) :
                  /\ logged[j].stepNumber = stepCount
                  /\ logged[j].call_id = CallItems(output)[j].call_id

C17_Witness ==
    /\ executed # {}
    /\ Len(logged) = 1
    /\ Len(output) = 2
    /\ \E i \in 1..2 : output[i].type = "message"
    /\ stepCount = 2

\* C18: when takeAction returns normally, what it returns has one result
\* per call item and none for a message, in the order of the call items,
\* each with its item's call_id, a computer_call_output for a
\* computer_call and a function_call_output for a function_call.
C18_ResultsMatchCalls ==
    (pc = "loop" /\ output # <<>> /\ ~threw)
        => /\ Len(actionOutputs) = Len(CallItems(output))
           /\ \A j \in 1..Len(actionOutputs) :
                  /\ actionOutputs[j].call_id = CallItems(output)[j].call_id
                  /\ actionOutputs[j].type =
                        IF CallItems(output)[j].type = "computer_call"
                          THEN "computer_call_output"
                          ELSE "function_call_output"

C18_Witness ==
    /\ pc = "loop"
    /\ ~threw
    /\ Len(output) = 2
    /\ output[1].type = "function_call"
    /\ output[2].type = "computer_call"
    /\ Len(actionOutputs) = 2

\* C19: the DailyTask is written completed only by a run whose own
\* conditional update moved the record from running to completed; it is
\* never written failed; and once the handler of a run whose update moved
\* the record from running to failed has made its DailyTask update, the
\* task is pending and carries the error.
C19_DailyTaskFollowsOwnWrite ==
    /\ dailyTask.status = "completed" => (dailyTaskId /\ completedByRun)
    /\ dailyTask.status \in {"none", "running", "completed", "pending"}
    /\ dailyTask.status = "pending"
         => (failedSession = "doc" /\ sessionDoc.status = "failed")
    /\ (dailyTaskId /\ failedSession = "doc" /\ pc = "catchdisc")
         => (dailyTask = [status |-> "pending", error |-> error]
             /\ error # "none")

C19_Witness ==
    /\ dailyTaskId
    /\ failedSession = "doc"
    /\ pc = "done"
    /\ result = "failure"
    /\ dailyTask.status = "pending"
    /\ dailyTask.error = "llm"

\* C20: once executeWithExecutionPrompt has returned, a run that was given
\* a DailyTask leaves it completed or pending, never running.
C20_TaskNeverLeftRunning ==
    (pc = "done" /\ dailyTaskId /\ result \in {"success", "failure"})
        => dailyTask.status \in {"completed", "pending"}

\* C21: when the prompt holds a known placeholder without a credential the
\* run fails before any browser interaction: the browser was not connected
\* (no session id was stored), no readiness probe succeeded, no LLM request
\* and no browser action was made, and nothing is charged.
C21_MissingCredentialFailsBeforeBrowser ==
    error = "missingcreds"
        => /\ ~sessionDoc.browserSessionId
           /\ ~browserReady
           /\ llmRequests = 0
           /\ deductCalls = 0

\* C23: the loop is entered, and LLM requests are made, only after a
\* readiness probe has succeeded.  When the readiness wait runs out or
\* connect yields no session id, the run is fatal: no LLM request and no
\* step, no deduction, the record is never completed by the run and is
\* failed once the handler has run on a record still running, and
\* browser.disconnect() has been called by the time the run ends.
C23_LoopOnlyAfterReadiness ==
    /\ (pc \in LoopPcs \/ llmRequests > 0 \/ stepCount > 0) => browserReady
    /\ error \in {"notready", "nosession"}
         => /\ ~browserReady
            /\ llmRequests = 0
            /\ stepCount = 0
            /\ deductCalls = 0
            /\ ~completedByRun
            /\ pc \in HandlerPcs
            /\ failedSession = "doc"
                 => (sessionDoc.status = "failed"
                     /\ sessionDoc.errorMessage = error)
            /\ result = "failure" => sessionDoc.status \in {"failed", "stopped"}
            /\ pc = "done" => disconnectCalls >= 1

C23_Witness ==
    /\ error = "notready"
    /\ pc = "done"
    /\ result = "failure"
    /\ sessionDoc.status = "failed"
    /\ disconnectCalls >= 1

\* C28: a run is one sequential flow.  While takeAction runs, the call
\* items before the current one have all been dispatched and have their
\* results, none after it has been touched, and only the current item can
\* be part-way through (primitive and screenshot done, checks pending);
\* takeAction returns only after the last item; and an LLM request is made
\* only with no item of any turn dispatched or pending.
C28_SequentialFlow ==
    /\ [](pc = "take"
            => /\ \A i \in 1..Len(output) :
                     IsCall(output[i])
                       => /\ i < idx => output[i].call_id \in executed
                          /\ i > idx => output[i].call_id \notin executed
               /\ Len(results) = Len(CallItems(SubSeq(output, 1, idx - 1)))
               /\ sub = "checks"
                    => (idx <= Len(output)
                        /\ output[idx].call_id \in executed))
    /\ []((pc = "loop" /\ output # <<>> /\ ~threw) => idx > Len(output))
    /\ [][llmRequests' # llmRequests
            => (pc = "get" /\ executed = {} /\ results = <<>> /\ idx = 1
                /\ sub = "start")]_vars

C28_Witness ==
    /\ pc = "take"
    /\ Len(output) = 2
    /\ idx = 2
    /\ sub = "checks"
    /\ executed = {1, 2}
    /\ Len(results) = 1

\* C29: every LLM request carries the same model, the same tool catalog
\* (the computer tool, back, goto) and truncation "auto"; the first carries
\* no previous-response cursor and the n-th, n > 1, carries the id of
\* response n-1.
C29_RequestsCarryCursor ==
    llmRequests >= 1
        => /\ request.model = "computer-use-preview"
           /\ request.tools = <<"computer_use_preview", "back", "goto">>
           /\ request.truncation = "auto"
           /\ request.previous_response_id = llmRequests - 1

C29_Witness ==
    /\ llmRequests = 3
    /\ request.previous_response_id = 2
    /\ pc = "log"

\* Replacement of every placeholder of the original prompt by its literal
\* credential value, in one pass.
RECURSIVE LiteralSubstitution(_, _)
LiteralSubstitution(p, creds) ==
    IF p = <<>> THEN <<>>
    ELSE (IF Head(p).ph \in PatternKeys THEN creds[Head(p).ph] ELSE <<Head(p)>>)
           \o LiteralSubstitution(Tail(p), creds)

\* C22: substituteCredentials throws exactly when a placeholder occurring
\* in the prompt has no non-empty credential, and the error names exactly
\* those keys; otherwise it returns the prompt with every occurrence
\* replaced by the literal credential value.
C22_SubstitutionIsLiteral ==
    substitutedPrompt.state \in {"threw", "returned"}
        => LET missingKeys == {k \in PatternKeys :
                                 Matches(prompt, k) /\ credentials[k] = <<>>}
           IN  IF missingKeys # {}
                 THEN /\ substitutedPrompt.state = "threw"
                      /\ {substitutedPrompt.missing[i] :
                            i \in 1..Len(substitutedPrompt.missing)} = missingKeys
                 ELSE /\ substitutedPrompt.state = "returned"
                      /\ substitutedPrompt.text
                           = LiteralSubstitution(prompt, credentials)

\* C24 as stated: one logical LLM request makes at most 5 HTTP attempts.
C24_AtMostFiveAttempts ==
    httpAttempts <= 5

\* C24: one logical LLM request makes at most 6 HTTP attempts, the first
\* and at most 5 retries, before the failure is surfaced.
C24_AtMostFiveRetries ==
    /\ httpAttempts <= 6
    /\ retryCount <= 5
    /\ Len(delays) = retryCount
    /\ reqState \in {"failed", "ok", "error"} => httpAttempts = retryCount + 1

C24_Witness ==
    /\ reqState = "error"
    /\ httpAttempts = 6
    /\ lastError.status = 503

\* C25: an attempt that fails with a status outside
\* {408,409,429,500,502,503,504} is not retried and adds no delay, so a
\* request whose first attempt fails so is attempted exactly once; while
\* retries are left, a failed attempt is retried exactly when it is a
\* network error or has a status of that set.
C25_OtherStatusesFailAtOnce ==
    /\ [][(reqState = "failed" /\ lastError.kind = "status"
             /\ lastError.status \notin {408, 409, 429, 500, 502, 503, 504})
            => (reqState' = "error" /\ httpAttempts' = httpAttempts
                /\ delays' = delays)]_vars
    /\ []((reqState = "error" /\ retryCount = 0)
            => (httpAttempts = 1 /\ delays = <<>>))
    /\ [][(reqState = "failed" /\ retryCount < 5)
            => (reqState' = "sending"
                  <=> (lastError.kind = "network"
                       \/ lastError.status
                            \in {408, 409, 429, 500, 502, 503, 504}))]_vars

C25_Witness ==
    /\ reqState = "error"
    /\ httpAttempts = 1
    /\ lastError.status = 404

\* C26: a retryable status is never surfaced after a single request; the
\* n-th retry is delayed by the n-th of 5000, 15000, 30000, 60000, 120000
\* ms when it answers a 429, and the delay for a 429 is 120000 ms for every
\* retry number above 5.
C26_RateLimitSchedule ==
    /\ (reqState = "error" /\ lastError.kind = "status"
          /\ lastError.status \in {408, 409, 429, 500, 502, 503, 504})
         => httpAttempts >= 2
    /\ \A i \in 1..Len(delays) :
          /\ delays[i].retry = i
          /\ delays[i].rateLimited
               => delays[i].delay = <<5000, 15000, 30000, 60000, 120000>>[i]
    /\ \A n \in 6..MaxRetryCount :
          retryDelay(n, [kind |-> "status", status |-> 429]) = 120000

C26_Witness ==
    /\ reqState = "error"
    /\ lastError.status = 429
    /\ Len(delays) = 5
    /\ \A i \in 1..5 : delays[i].rateLimited
    /\ delays[5].delay = 120000

\* C27 as stated: for every function name and argument string the call
\* returns the success acknowledgement with the item's call_id, having
\* invoked the like-named browser operation once when there is one and
\* nothing otherwise.
C27_AlwaysAcknowledges ==
    fnReturn.state \in {"returned", "threw"}
        => /\ fnReturn.state = "returned"
           /\ fnReturn.output = [type |-> "function_call_output",
                                  call_id |-> functionItem.call_id,
                                  output |-> "success"]
           /\ Len(fnReturn.invoked)
                = IF functionItem.name \in ComputerMethods
                    THEN 1 ELSE 0

\* C27: whenever takeFunctionAction returns, it returns a
\* function_call_output with the item's call_id and output "success",
\* having invoked the like-named browser operation exactly once with the
\* parsed argument values in order when the browser has one, and nothing
\* otherwise.  It throws instead only when the arguments are not JSON,
\* when they are null for an existing operation, or when the invoked
\* operation throws.
C27_AcknowledgesWhenItReturns ==
    /\ fnReturn.state = "returned"
         => /\ fnReturn.output = [type |-> "function_call_output",
                                   call_id |-> functionItem.call_id,
                                   output |-> "success"]
            /\ IF functionItem.name \in ComputerMethods
                 THEN /\ Len(fnReturn.invoked) = 1
                      /\ fnReturn.invoked[1].name = functionItem.name
                      /\ functionItem.arguments = "{\"x\":\"1\",\"y\":\"2\"}"
                           => fnReturn.invoked[1].args = <<"1", "2">>
                      /\ functionItem.arguments = "{}"
                           => fnReturn.invoked[1].args = <<>>
                 ELSE fnReturn.invoked = <<>>
    /\ fnReturn.state = "threw"
         => \/ functionItem.arguments = "not json" /\ fnReturn.invoked = <<>>
            \/ /\ functionItem.arguments = "null"
               /\ functionItem.name \in ComputerMethods
               /\ fnReturn.invoked = <<>>
            \/ /\ Len(fnReturn.invoked) = 1
               /\ fnReturn.invoked[1].name = functionItem.name
               /\ functionItem.name \in ComputerMethods

C27_Witness ==
    /\ fnReturn.state = "returned"
    /\ functionItem.name = "goto"
    /\ functionItem.arguments = "{\"x\":\"1\",\"y\":\"2\"}"
    /\ fnReturn.invoked = <<[name |-> "goto", args |-> <<"1", "2">>]>>

\* The rejection the claimed order of checks gives a request, "none" when
\* every check passes.
C30_FirstFailure ==
    IF ~postReq.allowed THEN [status |-> 429, reason |-> "rate"]
    ELSE IF ~postReq.authed THEN [status |-> 401, reason |-> "unauthorized"]
    ELSE IF ~postReq.validId THEN [status |-> 400, reason |-> "invalidId"]
    ELSE IF ~postReq.agentFound THEN [status |-> 404, reason |-> "notFound"]
    ELSE IF ~postReq.sufficient THEN [status |-> 402, reason |-> "credits"]
    ELSE IF ~postReq.keyValid THEN [status |-> 500, reason |-> "key"]
    ELSE IF ~postReq.pendingTask /\ ~postReq.hasPlan
           THEN [status |-> 400, reason |-> "noPlan"]
    ELSE [status |-> 0, reason |-> "none"]

\* C30: POST answers 429, 401, 400, 404, 402, 500 (key) or 400 (no plan)
\* for the first check that fails, in that order, and a request that would
\* fail a check is never answered 200; at every such rejection no session
\* has been created, isDeployed has not been set, no DailyTask status has
\* been changed and no execution has been started.
C30_RejectionsLeaveNoTrace ==
    /\ postResponse.reason \in {"rate", "unauthorized", "invalidId", "notFound",
                                 "credits", "key", "noPlan"}
         => /\ postResponse = C30_FirstFailure
            /\ postEffects = {}
    /\ postResponse.reason = "deployed" => C30_FirstFailure.status = 0
    /\ postEffects # {} => C30_FirstFailure.status = 0

C30_Witness ==
    /\ postResponse = [status |-> 400, reason |-> "noPlan"]
    /\ postPc = "responded"
    /\ postEffects = {}

\* C35: credits are deducted and the record is completed only for runs
\* whose loop ended by an empty output or at the step ceiling; a run whose
\* loop stopped on a cleared flag deducts nothing and does not complete its
\* DailyTask.
C35_PausedRunIsNotBilled ==
    /\ (deductCalls > 0 \/ completedByRun) => stopReason \in {"empty", "maxSteps"}
    /\ stopReason = "paused" => /\ deductCalls = 0
                                /\ dailyTask.status # "completed"

\* A non-empty output made of message items only.
MessageOnly(out) ==
    /\ Len(out) > 0
    /\ \A i \in 1..Len(out) : out[i].type = "message"

\* C36: a turn whose non-empty output holds only message items runs no
\* browser primitive, writes no log entry and appends nothing to the
\* conversation, but has counted a step and stored the response id as the
\* cursor; takeAction returns to the loop head, which starts the next
\* iteration unless the step ceiling is reached.
C36_MessageOnlyTurnIsInert ==
    /\ [](MessageOnly(output)
            => /\ pc \in {"log", "take", "loop"}
               /\ executed = {} /\ acked = {} /\ ~threw
               /\ logged = <<>>
               /\ results = <<>> /\ actionOutputs = <<>>
               /\ stepCount >= 1
               /\ previousResponseId = llmRequests
               /\ stopReason = "none" /\ error = "none")
    /\ [][(MessageOnly(output) /\ pc = "take" /\ pc' # "take")
            => (pc' = "loop" /\ actionOutputs' = <<>>)]_vars
    /\ [][(MessageOnly(output) /\ pc = "loop" /\ pc' # "loop")
            => IF stepCount < maxSteps
                 THEN pc' = "check" /\ stepCount' = stepCount + 1
                      /\ stopReason' = "none"
                 ELSE pc' = "terminal" /\ stopReason' = "maxSteps"]_vars

C36_Witness ==
    /\ MessageOnly(output)
    /\ Len(output) = 2
    /\ pc = "loop"
    /\ stepCount = maxSteps
    /\ previousResponseId = maxSteps

C32_HandlerAlwaysReturnsFailure ==
    (error # "none" /\ pc = "done")
        => /\ result = "failure"
           /\ deductCalls = 0
           /\ sessionDoc.status # "running"

\* C37: a function_call whose name is not a function of the tool catalog
\* invokes no method of the browser object.
C37_OnlyCatalogFunctionsRun ==
    (fnReturn.state \in {"returned", "threw"}
       /\ \A i \in 1..Len(ToolCatalog) : ToolCatalog[i] # functionItem.name)
        => fnReturn.invoked = <<>>

\* C34: the wait after a failed probe is 2 s while at most 30 s have
\* elapsed and 5 s afterwards, no probe is started once 90 s have elapsed,
\* and the readiness failure is reported no later than 90 s after polling
\* began.
C34_ReadinessSchedule ==
    /\ readiness.lastWait.wait # 0
         => readiness.lastWait.wait
              = IF readiness.lastWait.at <= 30000 THEN 2000 ELSE 5000
    /\ readiness.pc = "probe" => readiness.elapsed < 90000
    /\ readiness.pc = "failed" => readiness.elapsed <= 90000

\* The pending task with the smallest dayNumber, 0 when none is pending.
C31_FirstPending(tasks) ==
    IF \A d \in DayNumbers : tasks[d] # "pending" THEN 0
    ELSE CHOOSE d \in DayNumbers :
           /\ tasks[d] = "pending"
           /\ \A e \in 1..(d - 1) : tasks[e] # "pending"

\* C31: an accepted deployment selects the pending task with the smallest
\* dayNumber when there is one and none otherwise; by the time it starts
\* the execution it has set the selected task running, and the execution
\* is given that task's prompt, or the agent's executionPrompt when no
\* task was selected.
C31_SelectsFirstPendingTask ==
    /\ [][\A r \in Deployments :
            (deploys[r].pc = "find" /\ deploys'[r].pc # "find")
              => /\ deploys'[r].task = C31_FirstPending(db.tasks)
                 /\ deploys'[r].task # 0
                      => db.tasks[deploys'[r].task] = "pending"]_vars
    /\ [][\A r \in Deployments :
            (deploys[r].pc = "mark" /\ deploys'[r].pc # "mark")
              => /\ db'.tasks[deploys[r].task] = "running"
                 /\ \A d \in DayNumbers :
                      d # deploys[r].task => db'.tasks[d] = db.tasks[d]]_vars
    /\ [](\A r \in Deployments :
            deploys[r].run # "none"
              => /\ deploys[r].marked = (deploys[r].task # 0)
                 /\ deploys[r].executionPrompt
                      = IF deploys[r].task # 0
                          THEN [of |-> "task", day |-> deploys[r].task]
                          ELSE [of |-> "agent", day |-> 0])

C31_Witness ==
    /\ db.tasks[1] = "completed"
    /\ deploys[1].run = "started"
    /\ deploys[1].task = 2
    /\ db.tasks[2] = "running"
    /\ deploys[2].run = "started"
    /\ deploys[2].task = 0
    /\ deploys[2].executionPrompt.of = "agent"

\* C38: no DailyTask is held by two deployments at a time: two requests
\* that have selected a task and whose executions have not ended never
\* hold the same task.
C38_NoTaskSelectedTwice ==
    \A r1, r2 \in Deployments :
        (r1 # r2 /\ deploys[r1].task # 0 /\ deploys[r1].run # "ended"
                 /\ deploys[r2].run # "ended")
            => deploys[r1].task # deploys[r2].task

\* C39: the session of a 200 response is null or the AgentSession this
\* request created.
C39_ResponseCarriesOwnSession ==
    \A r \in Deployments :
        deploys[r].response.status = 200
            => deploys[r].response.session \in {0, deploys[r].session}

\* C40: when the handler of the Stagehand example route has finished, it
\* has called close() on the StagehandBrowser exactly once if it
\* constructed one and never otherwise, and not before its finally block;
\* this holds for the success response, for the 400 of an unknown action
\* and for the 500 of a throw.  A request with no action is answered 400
\* with no wrapper constructed and nothing initialised.  After a close()
\* that returned the wrapper holds no Stagehand instance, and a close() on
\* a wrapper that holds none calls nothing and changes nothing.
C40_WrapperClosedOnce ==
    /\ [](shPc = "finished"
            => /\ closeCalls.handler = IF stagehand.constructed THEN 1 ELSE 0
               /\ shResponse \in {200, 400, 500}
               /\ shResponse = 200
                    => (stagehand.constructed /\ shReq.action \in ShActions)
               /\ (shReq.action = "bogus" /\ shResponse = 400)
                    => stagehand.constructed)
    /\ [](shPc # "finished" => closeCalls = NoCloseCalls)
    /\ [](shReq.action = "none" /\ shPc \in {"finally", "finished"}
            => /\ shResponse = 400
               /\ stagehand = NoWrapper
               /\ closeCalls.inner = 0)
    /\ []((closeCalls.handler + closeCalls.again > 0 /\ ~closeCalls.threw)
            => stagehand.stagehand = "null")
    /\ [][(closeCalls'.again = closeCalls.again + 1
             /\ stagehand.stagehand = "null")
            => (stagehand' = stagehand
                /\ closeCalls'.inner = closeCalls.inner
                /\ ~closeCalls'.threw)]_vars

C40_Witness ==
    /\ shPc = "finished"
    /\ shReq.action = "extract"
    /\ shResponse = 200
    /\ closeCalls = [handler |-> 1, again |-> 1, inner |-> 1, threw |-> FALSE]
    /\ stagehand = [constructed |-> TRUE, stagehand |-> "null"]

====
